---------------------------- MODULE Spec2Model ----------------------------
(***************************************************************************)
(* Model of the IHC attribution pipeline:                                  *)
(*   attribution_processing.build_customer_journeys                        *)
(*   attribution_processing.call_ihc_api_test      (heuristic engine)      *)
(*   attribution_processing.call_ihc_api_batched   (batch orchestrator)    *)
(*   database_operations.save_attribution_results                          *)
(*   pipeline_runner.run_pipeline                                          *)
(*                                                                         *)
(* Timestamps are integer ticks; strftime('%Y-%m-%d %H:%M:%S') keeps whole *)
(* seconds only.  Python floats are modelled as exact rationals <<n, d>>.  *)
(***************************************************************************)
EXTENDS Integers, Sequences, FiniteSets, TLC

VARIABLES
    pc,                   \* position of run_pipeline
    test_mode,            \* run_pipeline argument
    max_journeys,         \* call_ihc_api_batched argument (batch size)
    sessions_df,          \* rows returned by get_sessions_data
    conversions_df,       \* rows returned by get_conversions_data
    journey_payload,      \* journey_payload['users'] as an insertion-ordered list
    work,                 \* heuristic engine: (user, conversion) positions left
    attribution_results,  \* conv_id -> session_id -> weight (both engines)
    conversion_ids,       \* batched: list(journeys_by_conversion.keys())
    journeys_by_conversion, \* batched: conv_id -> flattened records
    batch_start,          \* batched: loop variable i of range(0, total, batch_size)
    dispatched,           \* history: the batches sent, oldest first
    stored,               \* rows of table attribution_customer_journey
    stored_before,        \* history: rows of the table when the run began
    result                \* return value of run_pipeline ("none" while running)

vars == <<pc, test_mode, max_journeys, sessions_df, conversions_df,
          journey_payload, work, attribution_results, conversion_ids,
          journeys_by_conversion, batch_start, dispatched, stored,
          stored_before, result>>

-----------------------------------------------------------------------------
(* Bounds of the model *)

MaxSessions == 2
MaxConversions == 2
MaxTick == 2
TicksPerSec == 2
MaxBatchConversions == 3
MaxBatchSize == 2
MaxRespSessions == 2
MaxSecond == 2

Users == {"u1", "u2"}
SessionIds == {"s1", "s2"}
ConvIds == {"c1", "c2"}
BatchConvIds == {"c1", "c2", "c3"}
Times == 0 .. MaxTick
NoneId == "None"

-----------------------------------------------------------------------------
(* Generic helpers *)

SeqsUpTo(S, n) == UNION {[1 .. k -> S] : k \in 0 .. n}

Range(s) == {s[k] : k \in DOMAIN s}

EmptyMap == [x \in {} |-> 0]

RECURSIVE GCD(_, _)
GCD(a, b) == IF b = 0 THEN a ELSE GCD(b, a % b)

Rat(n, d) == LET g == GCD(n, d) IN <<n \div g, d \div g>>
RatAdd(a, b) == Rat(a[1] * b[2] + b[1] * a[2], a[2] * b[2])
RatMul(a, b) == Rat(a[1] * b[1], a[2] * b[2])
RatDiv(a, b) == Rat(a[1] * b[2], a[2] * b[1])
RatZero == <<0, 1>>
RatOne == <<1, 1>>
RatLess(a, b) == a[1] * b[2] < b[1] * a[2]

RECURSIVE SumOver(_, _)
SumOver(f, S) ==
    IF S = {} THEN RatZero
    ELSE LET x == CHOOSE y \in S : TRUE
         IN RatAdd(f[x], SumOver(f, S \ {x}))

(* sum(d.values()) *)
SumValues(f) == SumOver(f, DOMAIN f)

-----------------------------------------------------------------------------
(* Timestamps *)

(* timestamp.strftime('%Y-%m-%d %H:%M:%S'): the sub-second part is dropped *)
strftime(t) == t \div TicksPerSec

(* datetime.strptime(s, '%Y-%m-%d %H:%M:%S'): a datetime on a whole second *)
strptime(s) == s * TicksPerSec

-----------------------------------------------------------------------------
(* Input rows.  A session's channel and engagement flags are fixed per     *)
(* session id (sessions are immutable); user and timestamp vary per row,   *)
(* so one session id may occur on several rows.  A channel label is the    *)
(* sequence of the words it is made of.                                    *)

SessionCatalog ==
    [s \in {"s1", "s2", "s3"} |->
        CASE s = "s1" -> [channel_name |-> <<"Paid", "Search">>,
                          holder_engagement |-> FALSE,
                          closer_engagement |-> FALSE]
          [] s = "s2" -> [channel_name |-> <<"Email">>,
                          holder_engagement |-> TRUE,
                          closer_engagement |-> FALSE]
          [] OTHER    -> [channel_name |-> <<"Direct">>,
                          holder_engagement |-> FALSE,
                          closer_engagement |-> TRUE]]

SessionRow(s, u, t) ==
    [session_id |-> s, user_id |-> u, timestamp |-> t,
     channel_name |-> SessionCatalog[s].channel_name,
     holder_engagement |-> SessionCatalog[s].holder_engagement,
     closer_engagement |-> SessionCatalog[s].closer_engagement]

ConversionRow(c, u, t) == [conv_id |-> c, user_id |-> u, timestamp |-> t]

SessionRows(S, U) == {SessionRow(s, u, t) : s \in S, u \in U, t \in Times}
ConversionRows(C, U) == {ConversionRow(c, u, t) : c \in C, u \in U, t \in Times}

-----------------------------------------------------------------------------
(* build_customer_journeys *)

(* set(sessions_df['user_id'].unique()) & set(conversions_df['user_id'].unique()) *)
all_users(sdf, cdf) ==
    {r.user_id : r \in Range(sdf)} \cap {r.user_id : r \in Range(cdf)}

(* "for user_id in all_users": a Python set is iterated in an unspecified order *)
UserOrders(U) ==
    {o \in [1 .. Cardinality(U) -> U] : \A a, b \in DOMAIN o : o[a] = o[b] => a = b}

session_dict(row) ==
    [session_id |-> row.session_id,
     timestamp |-> strftime(row.timestamp),
     channel |-> row.channel_name,
     holder_engagement |-> row.holder_engagement,
     closer_engagement |-> row.closer_engagement]

conversion_dict(row) ==
    [conv_id |-> row.conv_id, timestamp |-> strftime(row.timestamp)]

(* len(user_sessions[user_sessions['timestamp'] < conv_time]) > 0 *)
HasSessionBeforeBad(user_sessions, conv_time) ==
    \E k \in DOMAIN user_sessions : user_sessions[k].timestamp <= conv_time

HasSessionBefore(user_sessions, conv_time) ==
    \E k \in DOMAIN user_sessions : user_sessions[k].timestamp < conv_time

UserJourney(sdf, cdf, user_id) ==
    LET OfUser(r) == r.user_id = user_id
        user_sessions == SelectSeq(sdf, OfUser)
        user_conversions == SelectSeq(cdf, OfUser)
        Retained(c) == HasSessionBefore(user_sessions, c.timestamp)
        kept == SelectSeq(user_conversions, Retained)
    IN [user_id |-> user_id,
        sessions |-> [k \in DOMAIN user_sessions |-> session_dict(user_sessions[k])],
        conversions |-> [k \in DOMAIN kept |-> conversion_dict(kept[k])]]

build_customer_journeys(sdf, cdf, order) ==
    LET journeys == [k \in DOMAIN order |-> UserJourney(sdf, cdf, order[k])]
        Kept(j) == Len(j.sessions) > 0 /\ Len(j.conversions) > 0
    IN SelectSeq(journeys, Kept)

-----------------------------------------------------------------------------
(* call_ihc_api_test: the heuristic engine *)

Contains(channel, word) == \E k \in DOMAIN channel : channel[k] = word

(* lines 117-125 with the tests for 'Search' and 'Email' exchanged *)
channel_weightSearchFirst(channel) ==
    IF Contains(channel, "Search") THEN Rat(13, 10)
    ELSE IF Contains(channel, "Social") THEN Rat(11, 10)
    ELSE IF Contains(channel, "Email") THEN Rat(12, 10)
    ELSE IF Contains(channel, "Direct") THEN Rat(8, 10)
    ELSE RatOne

(* lines 117-125: the if/elif chain; "'Email' in channel" is a substring   *)
(* test, here the membership of the word in the label                      *)
channel_weight(channel) ==
    IF Contains(channel, "Email") THEN Rat(12, 10)
    ELSE IF Contains(channel, "Social") THEN Rat(11, 10)
    ELSE IF Contains(channel, "Search") THEN Rat(13, 10)
    ELSE IF Contains(channel, "Direct") THEN Rat(8, 10)
    ELSE RatOne

engagement_weight(session) ==
    Rat(10 + (IF session.holder_engagement THEN 5 ELSE 0)
           + (IF session.closer_engagement THEN 7 ELSE 0), 10)

(* line 115: (i + 1) / total_sessions; i here is enumerate's index plus one *)
recency_weight(i, total_sessions) == Rat(i, total_sessions)

(* line 133 *)
raw_weight(i, total_sessions, session) ==
    RatMul(RatMul(recency_weight(i, total_sessions), channel_weight(session.channel)),
           engagement_weight(session))

(* the sessions of one journey a conversion may credit *)
EligibleBad(sessions, conversion) ==
    LET Before(s) == strptime(s.timestamp) <= strptime(conversion.timestamp)
    IN SelectSeq(sessions, Before)

eligible_sessions(sessions, conversion) ==
    LET Before(s) == strptime(s.timestamp) < strptime(conversion.timestamp)
    IN SelectSeq(sessions, Before)

(* the loop "for i, session in enumerate(eligible_sessions)": a later      *)
(* session with the same session_id overwrites the earlier entry           *)
WrittenWeights(eligible) ==
    LET ids == {eligible[k].session_id : k \in DOMAIN eligible}
        Last(sid) == CHOOSE k \in DOMAIN eligible :
                        /\ eligible[k].session_id = sid
                        /\ \A j \in DOMAIN eligible :
                              eligible[j].session_id = sid => j <= k
    IN [sid \in ids |-> raw_weight(Last(sid), Len(eligible), eligible[Last(sid)])]

(* lines 136-139: every entry of the conversion's dict is divided by the   *)
(* sum of all of them                                                      *)
NormalizeBad(weights, written) ==
    LET total_weight == SumValues(written)
    IN [sid \in DOMAIN weights |-> RatDiv(weights[sid], total_weight)]

Normalize(weights, written) ==
    LET total_weight == SumValues(weights)
    IN [sid \in DOMAIN weights |-> RatDiv(weights[sid], total_weight)]

(* one pass of the loop body "for conversion in conversions" *)
score_conversion(results, sessions, conversion) ==
    LET conv_id == conversion.conv_id
        created == IF conv_id \in DOMAIN results THEN results
                   ELSE results @@ (conv_id :> EmptyMap)
        eligible == eligible_sessions(sessions, conversion)
        written == WrittenWeights(eligible)
        weights == written @@ created[conv_id]
    IN IF Len(eligible) = 0 THEN created
       ELSE [created EXCEPT ![conv_id] = Normalize(weights, written)]

(* the (user, conversion) positions the two nested loops visit, in order *)
RECURSIVE WorkFrom(_, _)
WorkFrom(payload, u) ==
    IF u > Len(payload) THEN <<>>
    ELSE (IF Len(payload[u].sessions) = 0 \/ Len(payload[u].conversions) = 0
          THEN <<>>
          ELSE [c \in DOMAIN payload[u].conversions |-> <<u, c>>])
         \o WorkFrom(payload, u + 1)

WorkList(payload) == WorkFrom(payload, 1)

-----------------------------------------------------------------------------
(* call_ihc_api_batched: flattening and batching *)

(* f"conversion_{conv_id}" *)
ConversionSessionId(conv_id) ==
    CASE conv_id = "c1" -> "conversion_c1"
      [] conv_id = "c2" -> "conversion_c2"
      [] conv_id = "c3" -> "conversion_c3"
      [] OTHER -> "conversion_"

(* session_id.startswith('conversion_') *)
StartsWithConversion(session_id) ==
    session_id \in {"conversion_", "conversion_c1", "conversion_c2", "conversion_c3"}

(* the records lines 164-193 append for one conversion of one journey *)
ConversionRecords(sessions, conversion) ==
    LET eligible == eligible_sessions(sessions, conversion)
    IN [k \in DOMAIN eligible |->
           [conversion_id |-> conversion.conv_id,
            session_id |-> eligible[k].session_id,
            timestamp |-> eligible[k].timestamp,
            conversion |-> 0]]
       \o <<[conversion_id |-> conversion.conv_id,
             session_id |-> ConversionSessionId(conversion.conv_id),
             timestamp |-> conversion.timestamp,
             conversion |-> 1]>>

RECURSIVE FlattenWork(_, _)
FlattenWork(payload, w) ==
    IF w = <<>> THEN <<>>
    ELSE LET u == Head(w)[1]
             c == Head(w)[2]
         IN ConversionRecords(payload[u].sessions, payload[u].conversions[c])
            \o FlattenWork(payload, Tail(w))

flattened_journeys(payload) == FlattenWork(payload, WorkList(payload))

(* journeys_by_conversion: the records grouped by conversion_id *)
GroupByConversion(flat) ==
    [c \in {flat[k].conversion_id : k \in DOMAIN flat} |->
        LET Mine(r) == r.conversion_id = c IN SelectSeq(flat, Mine)]

(* list(journeys_by_conversion.keys()): keys in order of first insertion *)
RECURSIVE KeysInOrder(_, _)
KeysInOrder(flat, seen) ==
    IF flat = <<>> THEN <<>>
    ELSE IF Head(flat).conversion_id \in seen THEN KeysInOrder(Tail(flat), seen)
    ELSE <<Head(flat).conversion_id>>
         \o KeysInOrder(Tail(flat), seen \cup {Head(flat).conversion_id})

Min(a, b) == IF a < b THEN a ELSE b

(* conversion_ids[i:i + batch_size], i counted from 0 *)
BatchSliceBad(ids, i, batch_size) == SubSeq(ids, i + 1, Min(i + batch_size + 1, Len(ids)))

BatchSlice(ids, i, batch_size) == SubSeq(ids, i + 1, Min(i + batch_size, Len(ids)))

NextBatchStartByOne(i, batch_size) == i + 1

(* line 226: the step of range(0, total_conversions, batch_size) *)
NextBatchStart(i, batch_size) == i + batch_size

(* range(0, total_conversions, batch_size) *)
BatchStarts(total, batch_size) ==
    {i \in 0 .. total : i < total /\ i % batch_size = 0}

(* the batches the loop of lines 226-231 forms for a list of conversion ids *)
Batches(ids, batch_size) ==
    LET n == Cardinality(BatchStarts(Len(ids), batch_size))
    IN [b \in 1 .. n |-> BatchSlice(ids, (b - 1) * batch_size, batch_size)]

RECURSIVE Concat(_, _)
Concat(by_conv, ids) ==
    IF ids = <<>> THEN <<>> ELSE by_conv[Head(ids)] \o Concat(by_conv, Tail(ids))

(* batch_journeys: the records of a batch's conversions *)
batch_journeys(by_conv, batch_conversion_ids) == Concat(by_conv, batch_conversion_ids)

-----------------------------------------------------------------------------
(* call_ihc_api_batched: one request and the reconciliation of its response *)

IhcValue == Rat(1, 2)

RespSessionIds == {"s1", "conversion_c1"}

RespSessionEntries == {[session_id |-> x, ihc |-> IhcValue] : x \in RespSessionIds}

RespEntries ==
    {[conversion_id |-> c, sessions |-> ss] :
        c \in BatchConvIds \cup {NoneId},
        ss \in SeqsUpTo(RespSessionEntries, MaxRespSessions)}

(* a well-behaved service: one entry per submitted conversion, one session *)
(* entry per submitted record                                              *)
Echo(by_conv, ids) ==
    [k \in DOMAIN ids |->
        [conversion_id |-> ids[k],
         sessions |-> [j \in DOMAIN by_conv[ids[k]] |->
                          [session_id |-> by_conv[ids[k]][j].session_id,
                           ihc |-> IhcValue]]]]

(* what requests.post / raise_for_status / response.json() can produce:    *)
(*   transport_error  requests.post raises (connection, timeout, DNS)      *)
(*   http_error       a response with a 4xx/5xx status                     *)
(*   body             a 2xx response with a JSON object; statusCode 0      *)
(*                    stands for "no statusCode key"                       *)
Bodies(by_conv, ids) ==
    {[kind |-> "body", statusCode |-> sc, partialFailureErrors |-> pf,
      has_value |-> TRUE, value |-> v, echo |-> FALSE] :
        sc \in {0, 200, 500}, pf \in BOOLEAN,
        v \in {<<>>} \cup {<<e>> : e \in RespEntries}}
    \cup
    {[kind |-> "body", statusCode |-> sc, partialFailureErrors |-> pf,
      has_value |-> TRUE, value |-> Echo(by_conv, ids), echo |-> TRUE] :
        sc \in {0, 200, 500}, pf \in BOOLEAN}
    \cup
    {[kind |-> "body", statusCode |-> sc, partialFailureErrors |-> pf,
      has_value |-> FALSE, value |-> <<>>, echo |-> FALSE] :
        sc \in {0, 200, 500}, pf \in BOOLEAN}

Responses(by_conv, ids) ==
    {[kind |-> k, statusCode |-> 0, partialFailureErrors |-> FALSE,
      has_value |-> FALSE, value |-> <<>>, echo |-> FALSE] :
        k \in {"transport_error", "http_error"}}
    \cup Bodies(by_conv, ids)

RECURSIVE AddSessionsKeepsSynthetic(_, _)
AddSessionsKeepsSynthetic(weights, sessions) ==
    IF sessions = <<>> THEN weights
    ELSE AddSessionsKeepsSynthetic(
             IF Head(sessions).session_id # NoneId
             THEN (Head(sessions).session_id :> Head(sessions).ihc) @@ weights
             ELSE weights,
             Tail(sessions))

(* lines 278-283: the session entries of one conversion entry *)
RECURSIVE AddSessions(_, _)
AddSessions(weights, sessions) ==
    IF sessions = <<>> THEN weights
    ELSE LET session_id == Head(sessions).session_id
             ihc_value == Head(sessions).ihc
         IN AddSessions(
                IF session_id # NoneId /\ ~StartsWithConversion(session_id)
                THEN (session_id :> ihc_value) @@ weights
                ELSE weights,
                Tail(sessions))

(* lines 269-283: "for conv_data in attribution_values" *)
RECURSIVE Reconcile(_, _)
Reconcile(combined, attribution_values) ==
    IF attribution_values = <<>> THEN combined
    ELSE LET conv_data == Head(attribution_values)
             conv_id == conv_data.conversion_id
             created == IF conv_id \in DOMAIN combined THEN combined
                        ELSE combined @@ (conv_id :> EmptyMap)
         IN Reconcile(
                IF conv_id = NoneId THEN combined
                ELSE [created EXCEPT
                        ![conv_id] = AddSessions(created[conv_id], conv_data.sessions)],
                Tail(attribution_values))

OutcomeTransportContinues(response) ==
    IF response.kind = "transport_error" THEN "continue"
    ELSE IF response.kind = "http_error" THEN "raise"
    ELSE IF response.statusCode # 0 /\ response.statusCode # 200 THEN "continue"
    ELSE "next"

OutcomeHttpContinues(response) ==
    IF response.kind = "transport_error" THEN "raise"
    ELSE IF response.kind = "http_error" THEN "continue"
    ELSE IF response.statusCode # 0 /\ response.statusCode # 200 THEN "continue"
    ELSE "next"

(* how lines 244-293 leave the loop body: "raise" re-raises out of the     *)
(* function, "continue" and "next" go on with the following batch          *)
Outcome(response) ==
    IF response.kind = "transport_error" THEN "raise"
    ELSE IF response.kind = "http_error" THEN "raise"
    ELSE IF response.statusCode # 0 /\ response.statusCode # 200 THEN "continue"
    ELSE "next"

HandleResponseIgnoresStatus(combined, response) ==
    IF response.kind = "body" /\ response.has_value
    THEN Reconcile(combined, response.value)
    ELSE combined

(* combined_results after the loop body has handled the response *)
HandleResponse(combined, response) ==
    IF Outcome(response) = "next" /\ response.has_value
    THEN Reconcile(combined, response.value)
    ELSE combined

(* what the history records of a response *)
ResponseClass(response) ==
    IF response.kind # "body" THEN response.kind
    ELSE IF response.statusCode # 0 /\ response.statusCode # 200 THEN "app_error"
    ELSE IF response.has_value THEN "accepted"
    ELSE "unexpected"

-----------------------------------------------------------------------------
(* save_attribution_results *)

(* the (conv_id, session_id, ihc) rows lines 179-182 build *)
ResultRows(results) ==
    UNION {{<<c, sid, results[c][sid]>> : sid \in DOMAIN results[c]} : c \in DOMAIN results}

PriorRows == {<<"c0", "s0", RatOne>>}

(* the statements of save_attribution_results run in one sqlite3           *)
(* transaction: "working" is the table as the transaction sees it,         *)
(* "committed" the table as it is outside of it                            *)

DeleteAllKeepsRows(working) == working

(* line 178: DELETE FROM attribution_customer_journey *)
DeleteAll(working) == {}

(* lines 185-188: executemany INSERT *)
InsertRows(working, rows) == working \cup rows

(* line 190: conn.commit() *)
Commit(committed, working) == working

(* line 199: conn.rollback() *)
Rollback(committed, working) == committed

(* the table inside the transaction at the points where a statement of     *)
(* lines 176-190 can raise: before the DELETE took effect, after it, after *)
(* one INSERT, after all of them                                           *)
FailurePoints(committed, rows) ==
    {committed}
    \cup {InsertRows(DeleteAll(committed), some) :
             some \in {{}, rows} \cup {{row} : row \in rows}}

(* create_database_tables runs the schema script, which creates the tables *)
(* that are missing and leaves the rows of the existing ones               *)
create_database_tables(rows) == rows

-----------------------------------------------------------------------------
(* run_pipeline *)

InitCommon ==
    /\ pc = "start"
    /\ journey_payload = <<>>
    /\ work = <<>>
    /\ attribution_results = EmptyMap
    /\ conversion_ids = <<>>
    /\ journeys_by_conversion = EmptyMap
    /\ batch_start = 0
    /\ dispatched = <<>>
    /\ stored = PriorRows
    /\ stored_before = stored
    /\ result = "none"

(* steps 1-3: create_database_tables leaves existing rows alone; the rows  *)
(* are read and the journeys built                                         *)
LoadAndBuild ==
    /\ pc = "start"
    /\ \E order \in UserOrders(all_users(sessions_df, conversions_df)) :
          journey_payload' = build_customer_journeys(sessions_df, conversions_df, order)
    /\ stored' = create_database_tables(stored)
    /\ pc' = "built"
    /\ UNCHANGED <<test_mode, max_journeys, sessions_df, conversions_df, work,
                   attribution_results, conversion_ids, journeys_by_conversion,
                   batch_start, dispatched, stored_before, result>>

(* call_ihc_api_test, lines 85-93: entry *)
StartTest ==
    /\ pc = "built"
    /\ test_mode
    /\ work' = WorkList(journey_payload)
    /\ attribution_results' = EmptyMap
    /\ pc' = "scoring"
    /\ UNCHANGED <<test_mode, max_journeys, sessions_df, conversions_df,
                   journey_payload, conversion_ids, journeys_by_conversion,
                   batch_start, dispatched, stored, stored_before, result>>

(* call_ihc_api_test, lines 95-139: one conversion *)
ScoreConversion ==
    /\ pc = "scoring"
    /\ work # <<>>
    /\ LET u == Head(work)[1]
           c == Head(work)[2]
       IN attribution_results' =
              score_conversion(attribution_results, journey_payload[u].sessions,
                               journey_payload[u].conversions[c])
    /\ work' = Tail(work)
    /\ UNCHANGED <<pc, test_mode, max_journeys, sessions_df, conversions_df,
                   journey_payload, conversion_ids, journeys_by_conversion,
                   batch_start, dispatched, stored, stored_before, result>>

(* call_ihc_api_test, lines 141-142: return *)
ReturnTest ==
    /\ pc = "scoring"
    /\ work = <<>>
    /\ pc' = "results"
    /\ UNCHANGED <<test_mode, max_journeys, sessions_df, conversions_df,
                   journey_payload, work, attribution_results, conversion_ids,
                   journeys_by_conversion, batch_start, dispatched, stored,
                   stored_before, result>>

(* call_ihc_api_batched, lines 154-224: flatten, group, start the loop *)
StartBatched ==
    /\ pc = "built"
    /\ ~test_mode
    /\ LET flat == flattened_journeys(journey_payload)
       IN /\ journeys_by_conversion' = GroupByConversion(flat)
          /\ conversion_ids' = KeysInOrder(flat, {})
    /\ batch_start' = 0
    /\ attribution_results' = EmptyMap
    /\ pc' = "batching"
    /\ UNCHANGED <<test_mode, max_journeys, sessions_df, conversions_df,
                   journey_payload, work, dispatched, stored, stored_before, result>>

(* call_ihc_api_batched, lines 226-293: one batch *)
DispatchBatch ==
    /\ pc = "batching"
    /\ batch_start < Len(conversion_ids)
    /\ LET batch_conversion_ids == BatchSlice(conversion_ids, batch_start, max_journeys)
           sent == batch_journeys(journeys_by_conversion, batch_conversion_ids)
       IN \E response \in Responses(journeys_by_conversion, batch_conversion_ids) :
             /\ dispatched' = Append(dispatched,
                    [conversion_ids |-> batch_conversion_ids,
                     journeys |-> sent,
                     class |-> ResponseClass(response),
                     partial |-> response.partialFailureErrors,
                     echo |-> response.echo])
             /\ attribution_results' = HandleResponse(attribution_results, response)
             /\ IF Outcome(response) = "raise"
                THEN pc' = "raised" /\ batch_start' = batch_start
                ELSE /\ pc' = "batching"
                     /\ batch_start' = NextBatchStart(batch_start, max_journeys)
    /\ UNCHANGED <<test_mode, max_journeys, sessions_df, conversions_df,
                   journey_payload, work, conversion_ids, journeys_by_conversion,
                   stored, stored_before, result>>

(* call_ihc_api_batched, lines 295-296: return *)
ReturnBatched ==
    /\ pc = "batching"
    /\ batch_start >= Len(conversion_ids)
    /\ pc' = "results"
    /\ UNCHANGED <<test_mode, max_journeys, sessions_df, conversions_df,
                   journey_payload, work, attribution_results, conversion_ids,
                   journeys_by_conversion, batch_start, dispatched, stored,
                   stored_before, result>>

(* save_attribution_results, lines 175-194: delete, insert, commit *)
SaveResults ==
    /\ pc = "results"
    /\ stored' = Commit(stored, InsertRows(DeleteAll(stored),
                                          ResultRows(attribution_results)))
    /\ pc' = "saved"
    /\ UNCHANGED <<test_mode, max_journeys, sessions_df, conversions_df,
                   journey_payload, work, attribution_results, conversion_ids,
                   journeys_by_conversion, batch_start, dispatched,
                   stored_before, result>>

(* save_attribution_results, lines 196-201: a failed statement is rolled back *)
SaveFails ==
    /\ pc = "results"
    /\ \E working \in FailurePoints(stored, ResultRows(attribution_results)) :
          stored' = Rollback(stored, working)
    /\ pc' = "save_raised"
    /\ UNCHANGED <<test_mode, max_journeys, sessions_df, conversions_df,
                   journey_payload, work, attribution_results, conversion_ids,
                   journeys_by_conversion, batch_start, dispatched,
                   stored_before, result>>

(* run_pipeline, lines 54-74: reporting and export, then return True; an   *)
(* exception in them reaches the handler of lines 76-78                    *)
Finish ==
    /\ pc = "saved"
    /\ \E ok \in {"True", "False"} : result' = ok
    /\ pc' = "done"
    /\ UNCHANGED <<test_mode, max_journeys, sessions_df, conversions_df,
                   journey_payload, work, attribution_results, conversion_ids,
                   journeys_by_conversion, batch_start, dispatched, stored,
                   stored_before>>

(* run_pipeline, lines 76-78: except Exception: return False *)
HandleExceptionBad ==
    /\ pc \in {"raised", "save_raised"}
    /\ stored' = ResultRows(attribution_results)
    /\ result' = "False"
    /\ pc' = "done"
    /\ UNCHANGED <<test_mode, max_journeys, sessions_df, conversions_df,
                   journey_payload, work, attribution_results, conversion_ids,
                   journeys_by_conversion, batch_start, dispatched,
                   stored_before>>

HandleException ==
    /\ pc \in {"raised", "save_raised"}
    /\ result' = "False"
    /\ pc' = "done"
    /\ UNCHANGED <<test_mode, max_journeys, sessions_df, conversions_df,
                   journey_payload, work, attribution_results, conversion_ids,
                   journeys_by_conversion, batch_start, dispatched, stored,
                   stored_before>>

-----------------------------------------------------------------------------
(* run_pipeline in test mode (the heuristic engine).  The inputs are either *)
(* rows of two users, each with a session id of their own, and one         *)
(* conversion id, or rows of one user with several session and conversion  *)
(* ids.                                                                    *)

InitHeuristic ==
    /\ InitCommon
    /\ test_mode = TRUE
    /\ max_journeys = 1
    /\ \/ /\ sessions_df \in SeqsUpTo(SessionRows({"s1"}, {"u1"})
                                        \cup SessionRows({"s2"}, {"u2"}), MaxSessions)
          /\ conversions_df \in SeqsUpTo(ConversionRows({"c1"}, Users), MaxConversions)
       \/ /\ sessions_df \in SeqsUpTo(SessionRows(SessionIds, {"u1"}), MaxSessions)
          /\ conversions_df \in SeqsUpTo(ConversionRows(ConvIds, {"u1"}), MaxConversions)

NextHeuristic ==
    \/ LoadAndBuild
    \/ StartTest
    \/ ScoreConversion
    \/ ReturnTest
    \/ SaveResults
    \/ SaveFails
    \/ Finish
    \/ HandleException

SpecHeuristic == InitHeuristic /\ [][NextHeuristic]_vars

-----------------------------------------------------------------------------
(* run_pipeline in production mode (the batch orchestrator) *)

(* one user with one session; c3 converts within the session's second *)
BatchConversionRows ==
    {ConversionRow("c1", "u1", TicksPerSec),
     ConversionRow("c2", "u1", TicksPerSec),
     ConversionRow("c3", "u1", 1)}

InitBatched ==
    /\ InitCommon
    /\ test_mode = FALSE
    /\ max_journeys \in 1 .. MaxBatchSize
    /\ sessions_df = <<SessionRow("s1", "u1", 0)>>
    /\ conversions_df \in SeqsUpTo(BatchConversionRows, MaxBatchConversions)

NextBatched ==
    \/ LoadAndBuild
    \/ StartBatched
    \/ DispatchBatch
    \/ ReturnBatched
    \/ SaveResults
    \/ SaveFails
    \/ Finish
    \/ HandleException

SpecBatched == InitBatched /\ [][NextBatched]_vars

-----------------------------------------------------------------------------
(* build_customer_journeys and call_ihc_api_test on the rows of one user   *)
(* with one conversion: the sessions have ids of their own, any of the     *)
(* channel labels and engagement flags below, and whole-second timestamps  *)
(* in any row order; the conversion is at the last second.                 *)

SessionKinds ==
    {[channel_name |-> <<"Search">>, holder_engagement |-> FALSE, closer_engagement |-> FALSE],
     [channel_name |-> <<"Email">>, holder_engagement |-> TRUE, closer_engagement |-> FALSE],
     [channel_name |-> <<"Direct">>, holder_engagement |-> FALSE, closer_engagement |-> TRUE],
     [channel_name |-> <<"Email", "Search">>, holder_engagement |-> FALSE, closer_engagement |-> FALSE],
     [channel_name |-> <<"Social">>, holder_engagement |-> TRUE, closer_engagement |-> TRUE],
     [channel_name |-> <<"Display">>, holder_engagement |-> FALSE, closer_engagement |-> FALSE]}

WeightSessionIds == <<"s1", "s2", "s3">>

WholeSeconds == {strptime(k) : k \in 0 .. MaxSecond}

KindRow(s, t, kind) ==
    [session_id |-> s, user_id |-> "u1", timestamp |-> t,
     channel_name |-> kind.channel_name,
     holder_engagement |-> kind.holder_engagement,
     closer_engagement |-> kind.closer_engagement]

InitWeights ==
    /\ InitCommon
    /\ test_mode = TRUE
    /\ max_journeys = 1
    /\ \E n \in 1 .. Len(WeightSessionIds) :
          \E ts \in [1 .. n -> WholeSeconds], kinds \in [1 .. n -> SessionKinds] :
              sessions_df = [k \in 1 .. n |-> KindRow(WeightSessionIds[k], ts[k], kinds[k])]
    /\ conversions_df = <<ConversionRow("c1", "u1", strptime(MaxSecond))>>

NextWeights ==
    \/ LoadAndBuild
    \/ StartTest
    \/ ScoreConversion
    \/ ReturnTest

SpecWeights == InitWeights /\ [][NextWeights]_vars

-----------------------------------------------------------------------------
(* Properties of the batch orchestrator, checked under SpecBatched *)

CeilDiv(n, b) == (n + b - 1) \div b

LastDispatched == dispatched[Len(dispatched)]

(* the step is the dispatch of one batch *)
Dispatches == Len(dispatched') = Len(dispatched) + 1

(* C1: a batch whose response body carries a statusCode other than 200     *)
(* leaves the combined table as it was, the loop goes on with the next     *)
(* batch and the call never raises because of it; when the call returns,   *)
(* every batch was dispatched; and in a two-batch run whose first response *)
(* echoes the submitted records and whose second is such an error, the     *)
(* table holds exactly the conversions of batch 1.                         *)
C1_AppErrorSkipsBatch ==
    /\ [][(Dispatches /\ LastDispatched'.class = "app_error") =>
            /\ attribution_results' = attribution_results
            /\ pc' = "batching"
            /\ batch_start' = batch_start + max_journeys]_vars
    /\ [](pc = "raised" =>
            LastDispatched.class \in {"transport_error", "http_error"})
    /\ [](pc = "results" =>
            /\ Len(dispatched) = CeilDiv(Len(conversion_ids), max_journeys)
            /\ (/\ Len(dispatched) = 2
                /\ dispatched[1].class = "accepted"
                /\ dispatched[1].echo
                /\ dispatched[2].class = "app_error")
               => DOMAIN attribution_results = Range(dispatched[1].conversion_ids))

C1_Witness ==
    /\ pc = "results"
    /\ Len(dispatched) = 2
    /\ dispatched[1].class = "accepted"
    /\ dispatched[1].echo
    /\ dispatched[2].class = "app_error"
    /\ dispatched[2].conversion_ids = <<"c2">>
    /\ DOMAIN attribution_results = {"c1"}
    /\ DOMAIN attribution_results["c1"] = {"s1"}

(* C2: a transport-level failure of a batch ends the call at once: the     *)
(* failing batch is the last one dispatched and the exception reaches      *)
(* run_pipeline.                                                           *)
C2_TransportErrorIsFatal ==
    \A k \in DOMAIN dispatched :
        dispatched[k].class = "transport_error" =>
            /\ k = Len(dispatched)
            /\ pc \in {"raised", "done"}
            /\ batch_start < Len(conversion_ids)

C2_Witness ==
    /\ pc = "raised"
    /\ Len(dispatched) = 2
    /\ dispatched[1].class = "accepted"
    /\ dispatched[2].class = "transport_error"
    /\ Len(conversion_ids) = 3
    /\ max_journeys = 1

(* C3, as claimed: after a non-success HTTP status the call does not abort *)
(* and goes on with the next batch.                                        *)
C3_HttpErrorContinues ==
    \A k \in DOMAIN dispatched :
        dispatched[k].class = "http_error" => pc # "raised"

(* C3, amended: a non-success HTTP status is raised by raise_for_status    *)
(* and re-raised: the failing batch writes nothing, it is the last one     *)
(* dispatched, and the call aborts.                                        *)
C3_HttpErrorIsFatal ==
    /\ [][(Dispatches /\ LastDispatched'.class = "http_error") =>
            /\ attribution_results' = attribution_results
            /\ pc' = "raised"]_vars
    /\ [](\A k \in DOMAIN dispatched :
            dispatched[k].class = "http_error" =>
                /\ k = Len(dispatched)
                /\ pc \in {"raised", "done"}
                /\ batch_start < Len(conversion_ids))

C3_Witness ==
    /\ pc = "raised"
    /\ Len(dispatched) = 1
    /\ dispatched[1].class = "http_error"
    /\ Len(conversion_ids) = 3
    /\ max_journeys = 1

(* C4: when the orchestrator aborts with a transport error, the save step  *)
(* is never reached: the stored table keeps the rows it had before the     *)
(* run, whatever earlier batches had reconciled, and run_pipeline returns  *)
(* False.                                                                  *)
C4_AbortPersistsNothing ==
    (\E k \in DOMAIN dispatched : dispatched[k].class = "transport_error") =>
        /\ stored = stored_before
        /\ pc \notin {"results", "saved", "save_raised"}
        /\ pc = "done" => result = "False"

C4_Witness ==
    /\ pc = "done"
    /\ result = "False"
    /\ Len(dispatched) = 2
    /\ dispatched[1].class = "accepted"
    /\ dispatched[2].class = "transport_error"
    /\ "c1" \in DOMAIN attribution_results
    /\ DOMAIN attribution_results["c1"] = {"s1"}
    /\ stored = PriorRows

(* the conv_ids of the conversions of a payload *)
PayloadConvIds(payload) ==
    UNION {{payload[u].conversions[c].conv_id : c \in DOMAIN payload[u].conversions} :
              u \in DOMAIN payload}

BatchSizes(batches) == [b \in DOMAIN batches |-> Len(batches[b])]

(* 250 conversions in batches of 100 *)
C5_Example ==
    BatchSizes(Batches([k \in 1 .. 250 |-> k], 100)) = <<100, 100, 50>>

(* C5: the N distinct conversions of the payload are cut into ceil(N/B)    *)
(* batches; every batch but the last holds B conversions, the last the     *)
(* rest; no conversion is in two batches, and when the loop has run to its *)
(* end every conversion is in one; 250 conversions in batches of 100 make  *)
(* batches of 100, 100 and 50.                                             *)
C5_BatchingCompleteness ==
    LET N == Len(conversion_ids)
        B == max_journeys
        n == Len(dispatched)
        In(c) == {k \in 1 .. n : c \in Range(dispatched[k].conversion_ids)}
    IN /\ C5_Example
       /\ pc \notin {"start", "built"} =>
            /\ Range(conversion_ids) = PayloadConvIds(journey_payload)
            /\ N = Cardinality(PayloadConvIds(journey_payload))
       /\ n <= CeilDiv(N, B)
       /\ \A k \in 1 .. n :
            /\ Len(dispatched[k].conversion_ids) =
                  IF k < CeilDiv(N, B) THEN B ELSE N - (k - 1) * B
            /\ Cardinality(Range(dispatched[k].conversion_ids)) =
                  Len(dispatched[k].conversion_ids)
       /\ \A c \in Range(conversion_ids) : Cardinality(In(c)) <= 1
       /\ pc = "results" =>
            /\ n = CeilDiv(N, B)
            /\ \A c \in Range(conversion_ids) : Cardinality(In(c)) = 1

C5_WitnessPartialBatch ==
    /\ pc = "results"
    /\ max_journeys = 2
    /\ Len(conversion_ids) = 3
    /\ BatchSizes([k \in DOMAIN dispatched |-> dispatched[k].conversion_ids]) = <<2, 1>>

(* C10: no session_id key of the combined table starts with "conversion_", *)
(* whatever the responses held.                                            *)
C10_NoSyntheticKeys ==
    \A c \in DOMAIN attribution_results :
        \A sid \in DOMAIN attribution_results[c] : ~StartsWithConversion(sid)

C10_Witness ==
    /\ pc = "results"
    /\ Len(dispatched) = 1
    /\ dispatched[1].class = "accepted"
    /\ dispatched[1].echo
    /\ \E k \in DOMAIN dispatched[1].journeys :
          dispatched[1].journeys[k].session_id = "conversion_c1"
    /\ DOMAIN attribution_results = {"c1"}
    /\ DOMAIN attribution_results["c1"] = {"s1"}

(* C13, as claimed: a batch whose response body carries partial-failure    *)
(* entries is skipped, whatever else the body holds: the dispatch leaves   *)
(* the combined table as it was.                                           *)
C13_PartialFailureSkipsBatch ==
    [][(Dispatches /\ LastDispatched'.partial) =>
          attribution_results' = attribution_results]_vars

(* C15, as claimed: every conv_id of the combined table was submitted in a *)
(* batch whose response was accepted, and every session_id under it that   *)
(* is not synthetic was submitted for that conversion.                     *)
C15_OnlySubmittedIds ==
    \A c \in DOMAIN attribution_results :
        /\ \E k \in DOMAIN dispatched :
              /\ dispatched[k].class = "accepted"
              /\ c \in Range(dispatched[k].conversion_ids)
        /\ \A sid \in DOMAIN attribution_results[c] :
              ~StartsWithConversion(sid) =>
                 \E k \in DOMAIN dispatched :
                    \E j \in DOMAIN dispatched[k].journeys :
                       /\ dispatched[k].journeys[j].conversion_id = c
                       /\ dispatched[k].journeys[j].session_id = sid

(* the batches the loop has still to send *)
C16_Remaining == CeilDiv(Len(conversion_ids) - batch_start, max_journeys)

(* C16: for a batch size >= 1 and N distinct conversions the call sends at *)
(* most ceil(N/B) requests and then returns or raises: the k-th request    *)
(* carries the conversions at positions (k-1)B+1 .. kB of the list, so the *)
(* batches go out in increasing index order and none twice; a dispatch     *)
(* either raises or moves the loop to the next batch, also after a skipped *)
(* batch, so the number of batches still to send falls by one with every   *)
(* request; while batches remain a request can be made, when none remains  *)
(* the call returns; the loop is left only by the return or the raise, and *)
(* nothing is sent after it.                                               *)
C16_BoundedDispatch ==
    /\ [](max_journeys >= 1)
    /\ [](pc \notin {"start", "built"} =>
            LET N == Len(conversion_ids)
                B == max_journeys
            IN /\ Len(dispatched) <= CeilDiv(N, B)
               /\ \A k \in DOMAIN dispatched :
                     dispatched[k].conversion_ids =
                        SubSeq(conversion_ids, (k - 1) * B + 1, Min(k * B, N))
               /\ pc = "batching" => batch_start = Len(dispatched) * B
               /\ pc = "results" => Len(dispatched) = CeilDiv(N, B))
    /\ [][Dispatches =>
            /\ pc = "batching"
            /\ \/ pc' = "raised"
               \/ pc' = "batching" /\ C16_Remaining' = C16_Remaining - 1]_vars
    /\ [][pc # "batching" => dispatched' = dispatched]_vars
    /\ [](pc = "batching" =>
            /\ C16_Remaining >= 0
            /\ C16_Remaining > 0 => ENABLED DispatchBatch
            /\ C16_Remaining = 0 => ENABLED ReturnBatched)
    /\ [][(pc = "batching" /\ pc' # "batching") => pc' \in {"results", "raised"}]_vars

C16_Witness ==
    /\ pc = "results"
    /\ max_journeys = 2
    /\ Len(conversion_ids) = 3
    /\ Len(dispatched) = 2
    /\ dispatched[1].class = "app_error"
    /\ dispatched[2].class = "unexpected"
    /\ dispatched[1].conversion_ids = SubSeq(conversion_ids, 1, 2)
    /\ dispatched[2].conversion_ids = SubSeq(conversion_ids, 3, 3)

(* C11: a save that returns leaves in the table exactly the (conv_id,      *)
(* session_id, weight) triples of the attribution table it was given, and  *)
(* no row from before the call that is not among them; a save that raises  *)
(* leaves the rows the table had before the call.                          *)
C11_SaveReplacesRows ==
    /\ pc = "saved" =>
          /\ stored = ResultRows(attribution_results)
          /\ \A c \in DOMAIN attribution_results :
                \A sid \in DOMAIN attribution_results[c] :
                    <<c, sid, attribution_results[c][sid]>> \in stored
          /\ \A row \in stored_before :
                row \in stored => row \in ResultRows(attribution_results)
    /\ pc = "save_raised" => stored = stored_before
    /\ (pc = "done" /\ result = "True") =>
          stored = ResultRows(attribution_results)

C11_Witness ==
    /\ pc = "saved"
    /\ stored_before = PriorRows
    /\ stored = {<<"c1", "s1", IhcValue>>, <<"c2", "s1", IhcValue>>}
    /\ stored \cap stored_before = {}

-----------------------------------------------------------------------------
(* Properties of the journey builder and the heuristic engine, checked     *)
(* under SpecHeuristic                                                     *)

(* the session and conversion dicts of the payload, with their journey *)
PayloadSessions(payload) ==
    UNION {{<<u, payload[u].sessions[k]>> : k \in DOMAIN payload[u].sessions} :
              u \in DOMAIN payload}

PayloadConversions(payload) ==
    UNION {{<<u, payload[u].conversions[k]>> : k \in DOMAIN payload[u].conversions} :
              u \in DOMAIN payload}

(* no session_id and no conv_id occurs twice in the payload *)
UniqueIds(payload) ==
    /\ \A u \in DOMAIN payload : \A a, b \in DOMAIN payload[u].sessions :
          payload[u].sessions[a].session_id = payload[u].sessions[b].session_id => a = b
    /\ \A u \in DOMAIN payload : \A a, b \in DOMAIN payload[u].conversions :
          payload[u].conversions[a].conv_id = payload[u].conversions[b].conv_id => a = b
    /\ \A x, y \in PayloadSessions(payload) :
          x[2].session_id = y[2].session_id => x[1] = y[1]
    /\ \A x, y \in PayloadConversions(payload) :
          x[2].conv_id = y[2].conv_id => x[1] = y[1]

(* C6: every weight of the table stands for a session that precedes, in    *)
(* its journey, a conversion of that conv_id: some session of that id has  *)
(* a timestamp strictly before the conversion's.  Where ids are unique, a  *)
(* session at or after the conversion's timestamp has no weight for it.    *)
C6_OnlyEarlierSessionsCredited ==
    /\ \A c \in DOMAIN attribution_results :
         \A sid \in DOMAIN attribution_results[c] :
            \E x \in PayloadSessions(journey_payload),
               y \in PayloadConversions(journey_payload) :
                /\ x[1] = y[1]
                /\ x[2].session_id = sid
                /\ y[2].conv_id = c
                /\ x[2].timestamp < y[2].timestamp
    /\ UniqueIds(journey_payload) =>
         \A x \in PayloadSessions(journey_payload),
            y \in PayloadConversions(journey_payload) :
             (/\ x[1] = y[1]
              /\ x[2].timestamp >= y[2].timestamp
              /\ y[2].conv_id \in DOMAIN attribution_results)
             => x[2].session_id \notin DOMAIN attribution_results[y[2].conv_id]

C6_Witness ==
    /\ pc = "results"
    /\ UniqueIds(journey_payload)
    /\ \E x, z \in PayloadSessions(journey_payload),
          y \in PayloadConversions(journey_payload) :
          /\ x[1] = y[1] /\ z[1] = y[1]
          /\ x[2].timestamp < y[2].timestamp
          /\ z[2].timestamp = y[2].timestamp
          /\ DOMAIN attribution_results[y[2].conv_id] = {x[2].session_id}

(* C7: the weights of every conv_id that has a positive weight sum to 1,   *)
(* also when a conv_id or a session_id occurs more than once.              *)
C7_WeightsSumToOne ==
    \A c \in DOMAIN attribution_results :
        (\E sid \in DOMAIN attribution_results[c] :
            RatLess(RatZero, attribution_results[c][sid]))
        => SumValues(attribution_results[c]) = RatOne

C7_Witness ==
    /\ pc = "results"
    /\ Len(journey_payload) = 2
    /\ \A u \in DOMAIN journey_payload :
          /\ Len(journey_payload[u].conversions) = 1
          /\ journey_payload[u].conversions[1].conv_id = "c1"
          /\ Len(eligible_sessions(journey_payload[u].sessions,
                                   journey_payload[u].conversions[1])) = 1
    /\ DOMAIN attribution_results = {"c1"}
    /\ DOMAIN attribution_results["c1"] = {"s1", "s2"}
    /\ SumValues(attribution_results["c1"]) = RatOne

(* C8, as claimed: a conv_id none of whose conversions has an eligible     *)
(* session is not a key of the returned table.                             *)
C8_NoEntryWithoutEligibleSession ==
    pc = "results" =>
        \A y \in PayloadConversions(journey_payload) :
            (\A z \in PayloadConversions(journey_payload) :
                z[2].conv_id = y[2].conv_id =>
                    Len(eligible_sessions(journey_payload[z[1]].sessions, z[2])) = 0)
            => y[2].conv_id \notin DOMAIN attribution_results

-----------------------------------------------------------------------------
(* Properties of the heuristic engine's weights, checked under SpecWeights *)

(* the channel weights as the claim lists them, in the order of the tests *)
C12_ChannelOrder ==
    <<<<"Email", Rat(12, 10)>>, <<"Social", Rat(11, 10)>>,
      <<"Search", Rat(13, 10)>>, <<"Direct", Rat(8, 10)>>>>

C12_ChannelWeight(channel) ==
    LET hits == {k \in DOMAIN C12_ChannelOrder : Contains(channel, C12_ChannelOrder[k][1])}
    IN IF hits = {} THEN RatOne
       ELSE C12_ChannelOrder[CHOOSE k \in hits : \A j \in hits : k <= j][2]

C12_EngagementWeight(session) ==
    RatAdd(RatOne,
           RatAdd(IF session.holder_engagement THEN Rat(5, 10) ELSE RatZero,
                  IF session.closer_engagement THEN Rat(7, 10) ELSE RatZero))

(* ((i+1)/N) x channel weight x engagement weight, i counted from 0 *)
C12_RawWeight(i, N, session) ==
    RatMul(Rat(i + 1, N),
           RatMul(C12_ChannelWeight(session.channel), C12_EngagementWeight(session)))

C12_Scenario ==
    <<[channel |-> <<"Search">>, holder_engagement |-> FALSE, closer_engagement |-> FALSE],
      [channel |-> <<"Email">>, holder_engagement |-> TRUE, closer_engagement |-> FALSE],
      [channel |-> <<"Direct">>, holder_engagement |-> FALSE, closer_engagement |-> TRUE]>>

(* C12: the engine's un-normalized weight of the eligible session at       *)
(* 0-based position i of N is ((i+1)/N) x channel weight x engagement      *)
(* weight, with the channel weight of the first matching test in the order *)
(* Email, Social, Search, Direct (so "EmailSearch" gets 1.2) and the       *)
(* engagement weight 1.0 + 0.5 (holder) + 0.7 (closer); the returned       *)
(* weights are these divided by their sum; the sessions Search/none,       *)
(* Email/holder, Direct/closer get raw weights 13/30, 6/5 and 34/25.       *)
C12_HeuristicWeights ==
    /\ channel_weight(<<"Email", "Search">>) = Rat(12, 10)
    /\ [i \in 1 .. 3 |-> raw_weight(i, 3, C12_Scenario[i])]
          = <<Rat(13, 30), Rat(6, 5), Rat(34, 25)>>
    /\ pc \in {"scoring", "results"} =>
          \A u \in DOMAIN journey_payload :
             \A c \in DOMAIN journey_payload[u].conversions :
                LET conversion == journey_payload[u].conversions[c]
                    eligible == eligible_sessions(journey_payload[u].sessions, conversion)
                    N == Len(eligible)
                    claimed == [i \in 1 .. N |-> C12_RawWeight(i - 1, N, eligible[i])]
                IN \A i \in 1 .. N :
                      /\ raw_weight(i, N, eligible[i]) = claimed[i]
                      /\ (pc = "results" \/ work = <<>>) =>
                            attribution_results[conversion.conv_id][eligible[i].session_id]
                               = RatDiv(claimed[i], SumValues(claimed))

C12_Witness ==
    /\ pc = "results"
    /\ Len(journey_payload) = 1
    /\ [k \in DOMAIN journey_payload[1].sessions |->
           [channel |-> journey_payload[1].sessions[k].channel,
            holder_engagement |-> journey_payload[1].sessions[k].holder_engagement,
            closer_engagement |-> journey_payload[1].sessions[k].closer_engagement]]
          = C12_Scenario
    /\ attribution_results["c1"] =
          ("s1" :> Rat(65, 449)) @@ ("s2" :> Rat(180, 449)) @@ ("s3" :> Rat(204, 449))

(* C14, as claimed: of two eligible sessions of a conversion, the one with *)
(* the later timestamp has the strictly higher recency weight, in whatever *)
(* order the session rows were supplied.                                   *)
C14_LaterSessionHigherRecency ==
    pc \in {"scoring", "results"} =>
        \A u \in DOMAIN journey_payload :
           \A c \in DOMAIN journey_payload[u].conversions :
              LET eligible == eligible_sessions(journey_payload[u].sessions,
                                                journey_payload[u].conversions[c])
                  N == Len(eligible)
              IN \A a, b \in 1 .. N :
                    strptime(eligible[a].timestamp) < strptime(eligible[b].timestamp)
                    => RatLess(recency_weight(a, N), recency_weight(b, N))

=============================================================================
